---- MODULE Spec2Model ----
(***************************************************************************)
(* Public Radio firmware (Firmware/main.c): the Si4702 shadow register     *)
(* bank, the CRC-protected EEPROM parameter blocks, the button gesture     *)
(* handler and the boot / breathing / sleep sequencer, as one state        *)
(* machine.  Bytes are naturals 0..255, 16-bit words are naturals          *)
(* 0..65535; every C operator on them is modelled with its width.          *)
(***************************************************************************)
EXTENDS Integers, Sequences, FiniteSets, TLC

(***************************************************************************)
(* Program constants (main.c #defines and enum values).                    *)
(***************************************************************************)
LONG_PRESS_MS == 2000
BUTTON_DEBOUNCE_MS == 50
BREATH_COUNT_TIMEOUT_S == 60
DIAGNOSTIC_BLINK_BADEEPROM == 3
LOWBATT_BLINK_CYCLES == 120

REGISTER_02 == 16
REGISTER_03 == 18
REGISTER_04 == 20
REGISTER_05 == 22
REGISTER_07 == 26

EEPROM_BAND == 0
EEPROM_DEEMPHASIS == 1
EEPROM_SPACING == 2
EEPROM_CHANNEL == 3
EEPROM_VOLUME == 5
EEPROM_CRC16 == 14
EEPROM_PARAM_BLOCK_SIZE == 16
EEPROM_WORKING == 0
EEPROM_FACTORY == 16

REG_02_DMUTE_BIT == 14
REG_02_MONO_BIT == 13
REG_02_ENABLE_BIT == 1

TUNE_BIT == 32768
CHAN_MASK == 511
BAND_TOP == 320

(***************************************************************************)
(* Bound of the model: how many physical presses the user makes after      *)
(* power-on (a button already held at power-on is not counted).            *)
(***************************************************************************)
MaxPresses == 2

\* how many packets the programmer sends
MaxPackets == 2

\* how many times the supply fails in the middle of update_channel
MaxPowerLosses == 2

\* how many set_shadow_reg calls are applied to a bank on its own
MaxSets == 2

(***************************************************************************)
(* Width-exact integer helpers.                                            *)
(***************************************************************************)
Min(a, b) == IF a < b THEN a ELSE b

Pow2(n) == 2 ^ n

\* _BV(bit): 1 << bit
BV(bit) == Pow2(bit)

\* op is the 4-entry truth table <<f(0,0), f(0,1), f(1,0), f(1,1)>>; w bits wide
BitOpBits[op \in Seq({0, 1}), a \in Nat, b \in Nat, w \in Nat] ==
    IF w = 0 THEN 0
    ELSE op[2 * (a % 2) + (b % 2) + 1] + 2 * BitOpBits[op, a \div 2, b \div 2, w - 1]

BitOp(op, a, b, w) == BitOpBits[op, a, b, w]

BitOr(a, b) == BitOp(<<0, 1, 1, 1>>, a, b, 16)
BitAnd(a, b) == BitOp(<<0, 0, 0, 1>>, a, b, 16)
BitXor(a, b) == BitOp(<<0, 1, 1, 0>>, a, b, 16)

\* bit n of word v
Bit(v, n) == (v \div Pow2(n)) % 2

(***************************************************************************)
(* avr-libc <util/crc16.h> _crc16_update: CRC-16, polynomial 0xA001,       *)
(* reflected, one byte at a time.                                          *)
(***************************************************************************)
\* one of the eight shift steps
Crc16Step[c \in Nat] ==
    IF c % 2 = 1 THEN BitXor(c \div 2, 40961) ELSE c \div 2

crc16_update[crc \in Nat, a \in Nat] ==
    LET c0 == BitXor(crc, a)
    IN Crc16Step[Crc16Step[Crc16Step[Crc16Step[
       Crc16Step[Crc16Step[Crc16Step[Crc16Step[c0]]]]]]]]

RECURSIVE Crc16Range(_, _, _, _)
\* crc over ee[from], ..., ee[to - 1], starting from crc
Crc16Range(ee, from, to, crc) ==
    IF from >= to THEN crc
    ELSE Crc16Range(ee, from + 1, to, crc16_update[crc, ee[from]])

(***************************************************************************)
(* EEPROM access (avr-libc, little-endian words).                          *)
(***************************************************************************)
eeprom_read_word(ee, addr) == ee[addr] + 256 * ee[addr + 1]

eeprom_write_word(ee, addr, value) ==
    [ee EXCEPT ![addr] = value % 256, ![addr + 1] = (value \div 256) % 256]

\* check_param_crc(base): crc over all 16 bytes of the block; 0 iff good
check_param_crc(ee, base) ==
    Crc16Range(ee, base, base + EEPROM_PARAM_BLOCK_SIZE, 0)

\* faulty variant: the channel word is written one byte too far
update_channel_word_Shifted(ee, channel) ==
    eeprom_write_word(ee, EEPROM_CHANNEL + 1, channel)

\* update_channel, first half: the channel word is written
update_channel_word(ee, channel) == eeprom_write_word(ee, EEPROM_CHANNEL, channel)

\* update_channel, second half: crc over bytes 0..13 is recomputed and written
update_channel_crc(ee) ==
    eeprom_write_word(ee, EEPROM_CRC16,
                      Crc16Range(ee, EEPROM_WORKING, EEPROM_CRC16, 0))

\* faulty variant: the crc is not rewritten
update_channel_NoCrc(ee, channel) == update_channel_word(ee, channel)

update_channel(ee, channel) == update_channel_crc(update_channel_word(ee, channel))

\* faulty variant: the two crc bytes are not copied
copy_factory_param_NoCrc(ee) ==
    [a \in DOMAIN ee |->
        IF a >= EEPROM_WORKING /\ a < EEPROM_WORKING + EEPROM_CRC16
        THEN ee[EEPROM_FACTORY + (a - EEPROM_WORKING)]
        ELSE ee[a]]

\* faulty variant: source and destination are exchanged
copy_factory_param_Reversed(ee) ==
    [a \in DOMAIN ee |->
        IF a >= EEPROM_FACTORY /\ a < EEPROM_FACTORY + EEPROM_PARAM_BLOCK_SIZE
        THEN ee[EEPROM_WORKING + (a - EEPROM_FACTORY)]
        ELSE ee[a]]

\* copy_factory_param: bulk copy of the 16 factory bytes over the working bytes
copy_factory_param(ee) ==
    [a \in DOMAIN ee |->
        IF a >= EEPROM_WORKING /\ a < EEPROM_WORKING + EEPROM_PARAM_BLOCK_SIZE
        THEN ee[EEPROM_FACTORY + (a - EEPROM_WORKING)]
        ELSE ee[a]]

(***************************************************************************)
(* Shadow register bank: 32 bytes, register r high byte first at its enum  *)
(* offset.                                                                 *)
(***************************************************************************)
\* typedef enum si4702_register: the offset of logical register a (0x0..0xF) in
\* shadow[], as element a + 1
si4702_register == <<12, 14, 16, 18, 20, 22, 24, 26, 28, 30, 0, 2, 4, 6, 8, 10>>

get_shadow_reg(sh, reg) == BitOr(sh[reg] * 256, sh[reg + 1])

\* faulty variant: the low byte is stored first
set_shadow_reg_LowFirst(sh, reg, value) ==
    [sh EXCEPT ![reg] = value % 256, ![reg + 1] = (value \div 256) % 256]

set_shadow_reg(sh, reg, value) ==
    [sh EXCEPT ![reg] = (value \div 256) % 256, ![reg + 1] = value % 256]

\* faulty variant: the channel is read from the wrong register
currentChanFromShadow_WrongReg(sh) == get_shadow_reg(sh, REGISTER_02)

\* currentChanFromShadow: get_shadow_reg(REGISTER_03 & 0x1ff); the mask is
\* applied to the register offset, not to the value read
currentChanFromShadow(sh) == get_shadow_reg(sh, BitAnd(REGISTER_03, CHAN_MASK))

\* faulty variant: the count stops at the upper register's high byte
WriteLen_HighByte(upto_reg) == upto_reg - REGISTER_02 + 1

\* the bytes si4702_write_registers(upto_reg) hands to USI_TWI_Write_Data
WriteLen(upto_reg) == upto_reg - REGISTER_02 + 2

si4702_write_registers(sh, upto_reg) ==
    [upto |-> upto_reg,
     data |-> [i \in 1..WriteLen(upto_reg) |-> sh[REGISTER_02 + i - 1]]]


(***************************************************************************)
(* Inputs: the EEPROM images the device may be powered on with, the ramp   *)
(* steps and timing-loop counts at which the user may act, the packets a   *)
(* programmer may send.                                                    *)
(***************************************************************************)
Params(band, deemph, spacing, chan, vol) ==
    [band |-> band, deemph |-> deemph, spacing |-> spacing, chan |-> chan, vol |-> vol]

\* a 16-byte block image: fields, zeroed reserved bytes, crc (good, or one bit off)
BlockBytes(p, crcGood) ==
    LET body == [a \in 0..(EEPROM_CRC16 - 1) |->
                    CASE a = EEPROM_BAND -> p.band
                      [] a = EEPROM_DEEMPHASIS -> p.deemph
                      [] a = EEPROM_SPACING -> p.spacing
                      [] a = EEPROM_CHANNEL -> p.chan % 256
                      [] a = EEPROM_CHANNEL + 1 -> p.chan \div 256
                      [] a = EEPROM_VOLUME -> p.vol
                      [] OTHER -> 0]
        good == Crc16Range(body, 0, EEPROM_CRC16, 0)
        crc  == IF crcGood THEN good ELSE BitXor(good, 1)
    IN [a \in 0..(EEPROM_PARAM_BLOCK_SIZE - 1) |->
            IF a < EEPROM_CRC16 THEN body[a]
            ELSE IF a = EEPROM_CRC16 THEN crc % 256 ELSE crc \div 256]

WorkingImages ==
    { BlockBytes(Params(0, 0, 0, 100, 5), TRUE),
      BlockBytes(Params(1, 1, 1, 319, 15), TRUE),
      BlockBytes(Params(0, 0, 0, 100, 5), FALSE) }

FactoryImage == BlockBytes(Params(1, 0, 1, 50, 8), TRUE)

EepromImage(working) ==
    [a \in 0..(2 * EEPROM_PARAM_BLOCK_SIZE - 1) |->
        IF a < EEPROM_FACTORY THEN working[a] ELSE FactoryImage[a - EEPROM_FACTORY]]

\* no update_channel call has been cut short
NoTear == [losses |-> 0, moved |-> FALSE, valid |-> FALSE]

VARIABLES
    pc,                    \* position of main() / the function it is in
    eeprom,                \* 32 EEPROM bytes: working block, factory block
    shadow,                \* uint8_t shadow[32]
    writes,                \* register-bus write transactions issued so far
    resetHigh,             \* PORTB FMIC_RESET_BIT (FALSE: chip held in reset)
    pcie,                  \* button pin-change interrupt armed (GIMSK/PCMSK/sei)
    currentLEDBrightness,  \* static uint8_t currentLEDBrightness
    timerOn,               \* Timer1 running in PWM mode (TCCR1 # 0)
    blinkLeft,             \* low-battery blink loop counter i
    lastBlink,             \* argument of the last debugBlink call (0: none yet)
    countdown_s,           \* main: breaths left
    cycle,                 \* main: ramp step of the current breath
    ret,                   \* where handleButtonDown returns to
    chan,                  \* si4702_init: chan
    currentChan,           \* handleButtonDown: currentChan
    countdown,             \* handleButtonDown: countdown
    held,                  \* the user is holding the button
    pin,                   \* buttonDown(): the pin reads asserted
    sinceEdge,             \* ms since the last press/release edge, capped
    pressId,               \* physical presses made since power-on
    wake,                  \* a pin change has woken the sleeping CPU
    bootCrc,               \* value check_param_crc returned at boot (-1: not yet)
    shutDownCalls,         \* arguments shutDown was called with
    trigPress,             \* press that made the caller invoke handleButtonDown
    gestures,              \* actions taken by handleButtonDown, in order: the
                           \* press that triggered the call, the press being
                           \* made when the action began, the channels
    callActions,           \* actions taken by the current invocation
    sawUp,                 \* the timing loop ended on a released pin read
    packets,               \* packets readProgrammingPacket has received, in order:
                           \* the bytes, the return code, the debugBlink count
    saves,                 \* channels update_channel was called with, in order
    restored,              \* copy_factory_param has run in this boot
    bankOps,               \* set_shadow_reg calls applied to the bank on its own,
                           \* in order: the logical register, the value
    torn                   \* update_channel calls cut short by a loss of power:
                           \* how many so far; of the last, whether the channel
                           \* written differs from the old one and whether the
                           \* block's CRC was valid before the call

progVars == <<pc, eeprom, shadow, writes, resetHigh, pcie, currentLEDBrightness,
              timerOn, blinkLeft, lastBlink, countdown_s, cycle, ret,
              chan, currentChan, countdown>>
envVars == <<held, pin, sinceEdge, pressId, wake>>
histVars == <<bootCrc, shutDownCalls, trigPress, gestures, callActions, sawUp>>
saveVars == <<packets, saves, restored, bankOps, torn>>
vars == <<progVars, envVars, histVars, saveVars>>

Init ==
    /\ pc = "boot"
    /\ \E w \in WorkingImages : eeprom = EepromImage(w)
    /\ shadow = [a \in 0..31 |-> 0]
    /\ writes = <<>>
    /\ resetHigh = FALSE
    /\ pcie = FALSE
    /\ currentLEDBrightness = 0
    /\ timerOn = FALSE
    /\ blinkLeft = 0
    /\ lastBlink = 0
    /\ countdown_s = 0
    /\ cycle = 0
    /\ ret = "none"
    /\ chan = 0
    /\ currentChan = 0
    /\ countdown = 0
    /\ held \in BOOLEAN
    /\ pin = held
    /\ sinceEdge = BUTTON_DEBOUNCE_MS
    /\ pressId = 0
    /\ wake = FALSE
    /\ bootCrc = -1
    /\ shutDownCalls = <<>>
    /\ trigPress = 0
    /\ gestures = <<>>
    /\ callActions = 0
    /\ sawUp = FALSE
    /\ packets = <<>>
    /\ saves = <<>>
    /\ restored = FALSE
    /\ bankOps = <<>>
    /\ torn = NoTear

(***************************************************************************)
(* Time and the button pin.  After a press or release edge the pin may     *)
(* flicker for less than BUTTON_DEBOUNCE_MS; once that long has passed     *)
(* since the edge it reads what the user is doing.                         *)
(***************************************************************************)
SinceAfter(ms) == Min(BUTTON_DEBOUNCE_MS, sinceEdge + ms)

PinAfter(ms) == IF SinceAfter(ms) >= BUTTON_DEBOUNCE_MS THEN held ELSE pin

\* _delay_ms(ms)
Elapse(ms) ==
    /\ sinceEdge' = SinceAfter(ms)
    /\ pin' = PinAfter(ms)
    /\ UNCHANGED <<held, pressId, wake>>

NoTime == UNCHANGED envVars


SleepPcs == {"sleeping", "lowbatt_sleep"}

HandlerPcs == {"h_entry", "h_debounce", "h_timing", "h_short", "h_long",
               "h_release", "h_debounce_up"}

\* places where the CPU waits on the outside world for an unknown time
WaitingPcs == SleepPcs \cup {"h_release", "factory_wait", "prog_loop"}

\* ramp steps / breaths at which the user may press during breathing
PressCycles == {0, 1, 45, 90}
PressCountdowns == {BREATH_COUNT_TIMEOUT_S, 1}

\* timing-loop counts at which the user may release a held button
TickStops == {LONG_PRESS_MS - 1, 1, 0}

\* faulty variant: the pin change wakes the CPU whether armed or not
WakeOn_Unarmed(newPin) == IF pc \in SleepPcs /\ newPin # pin THEN TRUE ELSE wake

\* the pin-change interrupt wakes the CPU only from sleep, and only when armed
WakeOn(newPin) == IF pc \in SleepPcs /\ pcie /\ newPin # pin THEN TRUE ELSE wake

\* where the user may press: any time in the handler or the sleep loop, at the
\* chosen steps of the breathing loop; after a loss of power the button is left
\* alone (it may still be held while power returns)
PressWindow ==
    /\ torn.losses = 0
    /\ \/ pc \in HandlerPcs \cup {"sleep_off", "sleep_loop", "sleeping", "woke"}
       \/ pc = "breath" /\ cycle \in PressCycles /\ countdown_s \in PressCountdowns

EnvPress ==
    /\ ~held
    /\ pressId < MaxPresses
    /\ PressWindow
    /\ held' = TRUE
    /\ pin' = TRUE
    /\ sinceEdge' = 0
    /\ pressId' = pressId + 1
    /\ wake' = WakeOn(TRUE)
    /\ UNCHANGED <<progVars, histVars>>
    /\ UNCHANGED saveVars

EnvRelease ==
    /\ held
    /\ held' = FALSE
    /\ pin' = FALSE
    /\ sinceEdge' = 0
    /\ wake' = WakeOn(FALSE)
    /\ UNCHANGED <<pressId, progVars, histVars>>
    /\ UNCHANGED saveVars

\* contact bounce: the level toggles while the edge is younger than the window
EnvFlicker ==
    /\ sinceEdge < BUTTON_DEBOUNCE_MS
    /\ pin' = ~pin
    /\ wake' = WakeOn(~pin)
    /\ UNCHANGED <<held, sinceEdge, pressId, progVars, histVars>>
    /\ UNCHANGED saveVars

\* while the CPU waits, the bounce window runs out
EnvSettle ==
    /\ sinceEdge < BUTTON_DEBOUNCE_MS
    /\ pc \in WaitingPcs
    /\ sinceEdge' = BUTTON_DEBOUNCE_MS
    /\ pin' = held
    /\ wake' = WakeOn(held)
    /\ UNCHANGED <<held, pressId, progVars, histVars>>
    /\ UNCHANGED saveVars

(***************************************************************************)
(* LED.                                                                    *)
(***************************************************************************)
breath_data ==
    << 1, 1, 2, 3, 5, 8, 11, 15, 20, 25, 30, 36, 43, 49, 56, 64, 72, 80, 88, 97,
       105, 114, 123, 132, 141, 150, 158, 167, 175, 183, 191, 199, 206, 212, 219,
       225, 230, 235, 240, 244, 247, 250, 252, 253, 254, 255, 254, 253, 252, 250,
       247, 244, 240, 235, 230, 225, 219, 212, 206, 199, 191, 183, 175, 167, 158,
       150, 141, 132, 123, 114, 105, 97, 88, 80, 72, 64, 56, 49, 43, 36, 30, 25,
       20, 15, 11, 8, 5, 3, 2, 1, 0 >>

BREATH_LEN == Len(breath_data)

breath(step) == breath_data[step + 1]

\* setLEDBrightness(b): brightness 0 stops the timer, any other starts it
setLEDBrightness(b) ==
    /\ currentLEDBrightness' = b
    /\ timerOn' = (b # 0)

(***************************************************************************)
(* main(): power-on, battery check, programmer check.                      *)
(***************************************************************************)
Boot ==
    /\ pc = "boot"
    /\ resetHigh' = FALSE
    /\ \E vccOk \in BOOLEAN :
          IF vccOk
          THEN pc' = "prog_check" /\ blinkLeft' = blinkLeft
          ELSE pc' = "lowbatt_blink" /\ blinkLeft' = LOWBATT_BLINK_CYCLES
    /\ NoTime
    /\ UNCHANGED <<eeprom, shadow, writes, pcie, currentLEDBrightness, timerOn,
                   lastBlink, countdown_s, cycle, ret, chan, currentChan, countdown>>
    /\ UNCHANGED histVars
    /\ UNCHANGED saveVars

\* one 100 ms on / 900 ms off cycle of the low-battery blink loop
LowBattBlink ==
    /\ pc = "lowbatt_blink"
    /\ blinkLeft > 0
    /\ blinkLeft' = blinkLeft - 1
    /\ pc' = IF blinkLeft - 1 > 0 THEN "lowbatt_blink" ELSE "lowbatt_sleep"
    /\ Elapse(1000)
    /\ UNCHANGED <<eeprom, shadow, writes, resetHigh, pcie, currentLEDBrightness,
                   timerOn, lastBlink, countdown_s, cycle, ret, chan, currentChan,
                   countdown>>
    /\ UNCHANGED histVars
    /\ UNCHANGED saveVars

\* deepSleep() returns when an armed pin change wakes the CPU
Wake ==
    /\ pc \in SleepPcs
    /\ wake
    /\ wake' = FALSE
    /\ pc' = IF pc = "sleeping" THEN "woke" ELSE "prog_check"
    /\ UNCHANGED <<held, pin, sinceEdge, pressId>>
    /\ UNCHANGED <<eeprom, shadow, writes, resetHigh, pcie, currentLEDBrightness,
                   timerOn, blinkLeft, lastBlink, countdown_s, cycle, ret, chan,
                   currentChan, countdown>>
    /\ UNCHANGED histVars
    /\ UNCHANGED saveVars

ProgCheck ==
    /\ pc = "prog_check"
    /\ \E programmingVoltagePresent \in BOOLEAN :
          pc' = IF programmingVoltagePresent THEN "prog_loop" ELSE "normal_start"
    /\ NoTime
    /\ UNCHANGED <<eeprom, shadow, writes, resetHigh, pcie, currentLEDBrightness,
                   timerOn, blinkLeft, lastBlink, countdown_s, cycle, ret, chan,
                   currentChan, countdown>>
    /\ UNCHANGED histVars
    /\ UNCHANGED saveVars


(***************************************************************************)
(* Programming mode: readProgrammingPacket() in an endless loop.           *)
(***************************************************************************)
\* channels a programmer sends: one of the band, one above it
PacketChannels == {300, 1000}

PacketCrc(ch) == crc16_update[crc16_update[0, ch \div 256], ch % 256]

\* what four readPbyte() calls may return: a good packet, one with a wrong
\* crc, one whose reception fails after two bytes (a negative value)
Packets ==
    UNION { { <<ch \div 256, ch % 256, PacketCrc(ch) \div 256, PacketCrc(ch) % 256>>,
              <<ch \div 256, ch % 256, PacketCrc(ch) \div 256,
                BitXor(PacketCrc(ch) % 256, 1)>>,
              <<ch \div 256, ch % 256, -1, -1>> } : ch \in PacketChannels }

\* debugBlink(b): b pulses of 10 ms + 200 ms, then 1000 ms
DebugBlinkMs(b) == b * 210 + 1000

\* faulty variant: the channel is saved before the crc is compared
readProgrammingPacket_SaveFirst(d) ==
    IF d[1] < 0 THEN [rc |-> d[1], blink |-> 0, save |-> -1]
    ELSE IF d[2] < 0 THEN [rc |-> d[2], blink |-> 0, save |-> -1]
    ELSE IF d[3] < 0 THEN [rc |-> d[3], blink |-> 0, save |-> -1]
    ELSE IF d[4] < 0 THEN [rc |-> d[4], blink |-> 0, save |-> -1]
    ELSE LET crc     == crc16_update[crc16_update[0, d[1]], d[2]]
             channel == BitOr((d[1] * 256) % 65536, d[2])
             crc_rec == BitOr((d[3] * 256) % 65536, d[4])
         IN IF crc # crc_rec
            THEN [rc |-> -1, blink |-> 1, save |-> channel]
            ELSE [rc |-> 0, blink |-> 2, save |-> channel]

\* faulty variant: the channel's high byte is dropped
readProgrammingPacket_LowByte(d) ==
    IF d[1] < 0 THEN [rc |-> d[1], blink |-> 0, save |-> -1]
    ELSE IF d[2] < 0 THEN [rc |-> d[2], blink |-> 0, save |-> -1]
    ELSE IF d[3] < 0 THEN [rc |-> d[3], blink |-> 0, save |-> -1]
    ELSE IF d[4] < 0 THEN [rc |-> d[4], blink |-> 0, save |-> -1]
    ELSE LET crc     == crc16_update[crc16_update[0, d[1]], d[2]]
             channel == d[2]
             crc_rec == BitOr((d[3] * 256) % 65536, d[4])
         IN IF crc # crc_rec
            THEN [rc |-> -1, blink |-> 1, save |-> -1]
            ELSE [rc |-> 0, blink |-> 2, save |-> channel]

\* readProgrammingPacket on the bytes d: return code, blink count, and the
\* channel handed to update_channel (-1: update_channel is not called)
readProgrammingPacket(d) ==
    IF d[1] < 0 THEN [rc |-> d[1], blink |-> 0, save |-> -1]
    ELSE IF d[2] < 0 THEN [rc |-> d[2], blink |-> 0, save |-> -1]
    ELSE IF d[3] < 0 THEN [rc |-> d[3], blink |-> 0, save |-> -1]
    ELSE IF d[4] < 0 THEN [rc |-> d[4], blink |-> 0, save |-> -1]
    ELSE LET crc     == crc16_update[crc16_update[0, d[1]], d[2]]
             channel == BitOr((d[1] * 256) % 65536, d[2])
             crc_rec == BitOr((d[3] * 256) % 65536, d[4])
         IN IF crc # crc_rec
            THEN [rc |-> -1, blink |-> 1, save |-> -1]
            ELSE [rc |-> 0, blink |-> 2, save |-> channel]

\* faulty variant: the loop is left once a packet has been accepted
ProgLoopNext_UntilGood(rc) == IF rc = 0 THEN "normal_start" ELSE "prog_loop"

\* "while (1) { readProgrammingPacket(); }": the return code is not looked at
ProgLoopNext(rc) == "prog_loop"

ProgPacket ==
    /\ pc = "prog_loop"
    /\ Len(packets) < MaxPackets
    /\ \E d \in Packets :
          LET r == readProgrammingPacket(d)
          IN /\ eeprom' = IF r.save >= 0 THEN update_channel(eeprom, r.save) ELSE eeprom
             /\ saves' = IF r.save >= 0 THEN Append(saves, r.save) ELSE saves
             /\ packets' = Append(packets, [bytes |-> d, rc |-> r.rc, blink |-> r.blink])
             /\ lastBlink' = IF r.blink # 0 THEN r.blink ELSE lastBlink
             /\ IF r.blink # 0
                THEN Elapse(DebugBlinkMs(r.blink) + (IF r.save >= 0 THEN 50 ELSE 0))
                ELSE NoTime
             /\ pc' = ProgLoopNext(r.rc)
    /\ UNCHANGED <<restored, bankOps, torn>>
    /\ UNCHANGED <<shadow, writes, resetHigh, pcie, currentLEDBrightness, timerOn,
                   blinkLeft, countdown_s, cycle, ret, chan, currentChan, countdown>>
    /\ UNCHANGED histVars

(***************************************************************************)
(* Normal-Init: LED timer, button, factory restore, CRC check.             *)
(***************************************************************************)
\* adc_off(); LED_PWM_init(); LED_PWM_on(); initButton()
NormalStart ==
    /\ pc = "normal_start"
    /\ timerOn' = TRUE
    /\ pcie' = TRUE
    /\ pc' = IF pin THEN "factory_wait" ELSE "crc_check"
    /\ NoTime
    /\ UNCHANGED <<eeprom, shadow, writes, resetHigh, currentLEDBrightness,
                   blinkLeft, lastBlink, countdown_s, cycle, ret, chan, currentChan,
                   countdown>>
    /\ UNCHANGED histVars
    /\ UNCHANGED saveVars

\* one double blink (1200 ms) of the loop that waits for the boot button release
FactoryBlink ==
    /\ pc = "factory_wait"
    /\ pin
    /\ setLEDBrightness(0)
    /\ Elapse(1200)
    /\ UNCHANGED <<pc, eeprom, shadow, writes, resetHigh, pcie, blinkLeft, lastBlink,
                   countdown_s, cycle, ret, chan, currentChan, countdown>>
    /\ UNCHANGED histVars
    /\ UNCHANGED saveVars

\* faulty variant: the copy is made at once, the button still held
FactoryRestore_WhileHeld ==
    /\ pc = "factory_wait"
    /\ eeprom' = copy_factory_param(eeprom)
    /\ restored' = TRUE
    /\ pc' = "crc_check"
    /\ NoTime
    /\ UNCHANGED <<shadow, writes, resetHigh, pcie, currentLEDBrightness, timerOn,
                   blinkLeft, lastBlink, countdown_s, cycle, ret, chan, currentChan,
                   countdown>>
    /\ UNCHANGED histVars
    /\ UNCHANGED <<packets, saves, bankOps, torn>>

\* "while (buttonDown())" ends on a released read; copy_factory_param()
FactoryRestore ==
    /\ pc = "factory_wait"
    /\ ~pin
    /\ eeprom' = copy_factory_param(eeprom)
    /\ restored' = TRUE
    /\ pc' = "crc_check"
    /\ NoTime
    /\ UNCHANGED <<shadow, writes, resetHigh, pcie, currentLEDBrightness, timerOn,
                   blinkLeft, lastBlink, countdown_s, cycle, ret, chan, currentChan,
                   countdown>>
    /\ UNCHANGED histVars
    /\ UNCHANGED <<packets, saves, bankOps, torn>>

\* the condition of "if (!check_param_crc(EEPROM_WORKING))"
ShutDownTaken(crc) == crc = 0

\* shutDown(blinkCount): the function body is empty; the call returns at once
shutDown(blinkCount) == shutDownCalls' = Append(shutDownCalls, blinkCount)

CrcCheck ==
    /\ pc = "crc_check"
    /\ LET crc == check_param_crc(eeprom, EEPROM_WORKING)
       IN /\ bootCrc' = crc
          /\ IF ShutDownTaken(crc)
             THEN shutDown(DIAGNOSTIC_BLINK_BADEEPROM)
             ELSE UNCHANGED shutDownCalls
    /\ pc' = "call_init"
    /\ NoTime
    /\ UNCHANGED <<eeprom, shadow, writes, resetHigh, pcie, currentLEDBrightness,
                   timerOn, blinkLeft, lastBlink, countdown_s, cycle, ret, chan,
                   currentChan, countdown>>
    /\ UNCHANGED <<trigPress, gestures, callActions, sawUp>>
    /\ UNCHANGED saveVars

(***************************************************************************)
(* si4702_init(): the five register-bus writes and the delays between.     *)
(***************************************************************************)
InitFrame ==
    /\ UNCHANGED <<eeprom, pcie, currentLEDBrightness, timerOn, blinkLeft,
                   lastBlink, countdown_s, cycle, ret, currentChan, countdown>>
    /\ UNCHANGED histVars

\* reset released, 1 ms, USI_TWI_Master_Initialise()
InitReset ==
    /\ pc = "call_init"
    /\ resetHigh' = TRUE
    /\ Elapse(1)
    /\ pc' = "init_osc"
    /\ UNCHANGED <<shadow, writes, chan>>
    /\ InitFrame
    /\ UNCHANGED saveVars

\* register 0x07 = 0x8100 (crystal oscillator enable), written; 600 ms
InitOscillator ==
    /\ pc = "init_osc"
    /\ shadow' = set_shadow_reg(shadow, REGISTER_07, 33024)
    /\ writes' = Append(writes, si4702_write_registers(shadow', REGISTER_07))
    /\ Elapse(600)
    /\ pc' = "init_powerup"
    /\ UNCHANGED <<resetHigh, chan>>
    /\ InitFrame
    /\ UNCHANGED saveVars

\* register 0x02 = enable bit only, written; 110 ms
InitPowerUp ==
    /\ pc = "init_powerup"
    /\ shadow' = set_shadow_reg(shadow, REGISTER_02, BV(REG_02_ENABLE_BIT))
    /\ writes' = Append(writes, si4702_write_registers(shadow', REGISTER_02))
    /\ Elapse(110)
    /\ pc' = "init_params"
    /\ UNCHANGED <<resetHigh, chan>>
    /\ InitFrame
    /\ UNCHANGED saveVars

\* registers 0x04 and 0x05 from the EEPROM parameters
ParamRegs(sh, ee) ==
    LET sh4 == set_shadow_reg(sh, REGISTER_04,
                   BitOr(get_shadow_reg(sh, REGISTER_04),
                         IF ee[EEPROM_DEEMPHASIS] # 0 THEN 2048 ELSE 0))
    IN set_shadow_reg(sh4, REGISTER_05,
           BitOr(BitOr(BitAnd(ee[EEPROM_BAND], 3) * 64,
                       BitAnd(ee[EEPROM_SPACING], 3) * 16),
                 BitAnd(ee[EEPROM_VOLUME], 15)))

\* faulty variant: the parameter registers are not written on their own but
\* left for the tune write to carry
InitParams_Batched ==
    /\ pc = "init_params"
    /\ shadow' = ParamRegs(shadow, eeprom)
    /\ NoTime
    /\ pc' = "init_tune"
    /\ UNCHANGED <<writes, resetHigh, chan>>
    /\ InitFrame
    /\ UNCHANGED saveVars

InitParams ==
    /\ pc = "init_params"
    /\ shadow' = ParamRegs(shadow, eeprom)
    /\ writes' = Append(writes, si4702_write_registers(shadow', REGISTER_05))
    /\ NoTime
    /\ pc' = "init_tune"
    /\ UNCHANGED <<resetHigh, chan>>
    /\ InitFrame
    /\ UNCHANGED saveVars

\* chan read from the EEPROM; register 0x03 = tune bit | chan, written; 100 ms
InitTune ==
    /\ pc = "init_tune"
    /\ chan' = eeprom_read_word(eeprom, EEPROM_CHANNEL)
    /\ shadow' = set_shadow_reg(shadow, REGISTER_03, BitOr(TUNE_BIT, chan'))
    /\ writes' = Append(writes, si4702_write_registers(shadow', REGISTER_03))
    /\ Elapse(100)
    /\ pc' = "init_unmute"
    /\ UNCHANGED resetHigh
    /\ InitFrame
    /\ UNCHANGED saveVars

\* the value written to register 0x02 to unmute:
\* _BV(REG_02_DMUTE_BIT) | (REG_02_MONO_BIT) | _BV(REG_02_ENABLE_BIT)
UnmuteValue == BitOr(BitOr(BV(REG_02_DMUTE_BIT), REG_02_MONO_BIT), BV(REG_02_ENABLE_BIT))

\* register 0x02 = unmute value, register 0x03 = chan (tune bit clear), written
InitUnmute ==
    /\ pc = "init_unmute"
    /\ shadow' = set_shadow_reg(set_shadow_reg(shadow, REGISTER_02, UnmuteValue),
                                REGISTER_03, chan)
    /\ writes' = Append(writes, si4702_write_registers(shadow', REGISTER_03))
    /\ NoTime
    /\ pc' = "init_done"
    /\ UNCHANGED <<resetHigh, chan>>
    /\ InitFrame
    /\ UNCHANGED saveVars


(***************************************************************************)
(* Normal-Breathing: countdown_s breaths, each one pass over breath_data,  *)
(* the button sampled after every 20 ms step.                              *)
(***************************************************************************)
BreathStart ==
    /\ pc = "init_done"
    /\ countdown_s' = BREATH_COUNT_TIMEOUT_S
    /\ cycle' = 0
    /\ pc' = "breath"
    /\ NoTime
    /\ UNCHANGED <<eeprom, shadow, writes, resetHigh, pcie, currentLEDBrightness,
                   timerOn, blinkLeft, lastBlink, ret, chan, currentChan, countdown>>
    /\ UNCHANGED histVars
    /\ UNCHANGED saveVars

\* the next ramp step at which the user may press (or the end of the ramp)
NextBreathStop(c) ==
    CHOOSE s \in PressCycles \cup {BREATH_LEN} :
        /\ s > c
        /\ \A t \in PressCycles \cup {BREATH_LEN} : t > c => s <= t

\* faulty variant: breathing ends after the first completed ramp
AfterBody_OnePass(c, cs) ==
    IF c + 1 < BREATH_LEN THEN <<"breath", c + 1, cs>>
    ELSE <<"sleep_off", c + 1, cs - 1>>

\* the for loop's cycle++ and test after the body at step c, then the while
\* loop's countdown_s-- and test: <<pc, cycle, countdown_s>>
AfterBody(c, cs) ==
    IF c + 1 < BREATH_LEN THEN <<"breath", c + 1, cs>>
    ELSE IF cs - 1 # 0 THEN <<"breath", 0, cs - 1>>
    ELSE <<"sleep_off", c + 1, cs - 1>>

\* n loop bodies in a row in which the button reads released.  With the user's
\* hand off the button and the pin settled that is every step up to the next
\* step of PressCycles; otherwise it is one step.
BreathRun ==
    /\ pc = "breath"
    /\ ~PinAfter(20)
    /\ LET n    == IF held \/ sinceEdge < BUTTON_DEBOUNCE_MS
                   THEN 1 ELSE NextBreathStop(cycle) - cycle
           last == cycle + n - 1
           nxt  == AfterBody(last, countdown_s)
       IN /\ setLEDBrightness(breath(last))
          /\ Elapse(20 * n)
          /\ pc' = nxt[1]
          /\ cycle' = nxt[2]
          /\ countdown_s' = nxt[3]
    /\ UNCHANGED <<eeprom, shadow, writes, resetHigh, pcie, blinkLeft, lastBlink,
                   ret, chan, currentChan, countdown>>
    /\ UNCHANGED histVars
    /\ UNCHANGED saveVars

\* a loop body in which the button reads pressed: handleButtonDown() is called
BreathButton ==
    /\ pc = "breath"
    /\ PinAfter(20)
    /\ setLEDBrightness(breath(cycle))
    /\ Elapse(20)
    /\ pc' = "h_entry"
    /\ ret' = "breath"
    /\ trigPress' = pressId
    /\ UNCHANGED <<eeprom, shadow, writes, resetHigh, pcie, blinkLeft, lastBlink,
                   countdown_s, cycle, chan, currentChan, countdown>>
    /\ UNCHANGED <<bootCrc, shutDownCalls, gestures, callActions, sawUp>>
    /\ UNCHANGED saveVars

(***************************************************************************)
(* Normal-Sleeping.                                                        *)
(***************************************************************************)
\* LED_PWM_off() after the last breath
SleepOff ==
    /\ pc = "sleep_off"
    /\ timerOn' = FALSE
    /\ pc' = "sleep_loop"
    /\ NoTime
    /\ UNCHANGED <<eeprom, shadow, writes, resetHigh, pcie, currentLEDBrightness,
                   blinkLeft, lastBlink, countdown_s, cycle, ret, chan, currentChan,
                   countdown>>
    /\ UNCHANGED histVars
    /\ UNCHANGED saveVars

\* LED_PWM_off(); deepSleep()
SleepEnter ==
    /\ pc = "sleep_loop"
    /\ timerOn' = FALSE
    /\ pc' = "sleeping"
    /\ NoTime
    /\ UNCHANGED <<eeprom, shadow, writes, resetHigh, pcie, currentLEDBrightness,
                   blinkLeft, lastBlink, countdown_s, cycle, ret, chan, currentChan,
                   countdown>>
    /\ UNCHANGED histVars
    /\ UNCHANGED saveVars

\* faulty variant: the handler is called after every wake
HandlerAfterWake_Any(down) == TRUE

\* "if (buttonDown())" after deepSleep(): only presses are handled, not lifts
HandlerAfterWake(down) == down

\* after the wake: if (buttonDown()) { LED_PWM_on(); handleButtonDown(); }
Woke ==
    /\ pc = "woke"
    /\ IF HandlerAfterWake(pin)
       THEN /\ timerOn' = TRUE
            /\ pc' = "h_entry"
            /\ ret' = "sleep"
            /\ trigPress' = pressId
       ELSE /\ pc' = "sleep_loop"
            /\ UNCHANGED <<timerOn, ret, trigPress>>
    /\ NoTime
    /\ UNCHANGED <<eeprom, shadow, writes, resetHigh, pcie, currentLEDBrightness,
                   blinkLeft, lastBlink, countdown_s, cycle, chan, currentChan,
                   countdown>>
    /\ UNCHANGED <<bootCrc, shutDownCalls, gestures, callActions, sawUp>>
    /\ UNCHANGED saveVars


(***************************************************************************)
(* handleButtonDown().                                                     *)
(***************************************************************************)
\* setLEDBrightness(0) on entry
HandleEntry ==
    /\ pc = "h_entry"
    /\ setLEDBrightness(0)
    /\ callActions' = 0
    /\ sawUp' = FALSE
    /\ pc' = "h_debounce"
    /\ NoTime
    /\ UNCHANGED <<eeprom, shadow, writes, resetHigh, pcie, blinkLeft, lastBlink,
                   countdown_s, cycle, ret, chan, currentChan, countdown>>
    /\ UNCHANGED <<bootCrc, shutDownCalls, trigPress, gestures>>
    /\ UNCHANGED saveVars

\* faulty variant: a debounce delay shorter than the bounce window
DebounceDelay_Short == BUTTON_DEBOUNCE_MS \div 10

\* _delay_ms(BUTTON_DEBOUNCE_MS): how long the handler waits out an edge
DebounceDelay == BUTTON_DEBOUNCE_MS

\* debounce down; currentChan = currentChanFromShadow(); countdown = LONG_PRESS_MS
HandleDebounceDown ==
    /\ pc = "h_debounce"
    /\ Elapse(DebounceDelay)
    /\ currentChan' = currentChanFromShadow(shadow)
    /\ countdown' = LONG_PRESS_MS
    /\ pc' = "h_timing"
    /\ UNCHANGED <<eeprom, shadow, writes, resetHigh, pcie, currentLEDBrightness,
                   timerOn, blinkLeft, lastBlink, countdown_s, cycle, ret, chan>>
    /\ UNCHANGED histVars
    /\ UNCHANGED saveVars

\* the next count at which the user may release (the largest stop below c)
NextTickStop(c) ==
    CHOOSE s \in TickStops : s < c /\ \A t \in TickStops : t < c => t <= s

\* the loop test of "while (countdown && buttonDown())"
TimingContinues(cd, down) == cd # 0 /\ down

\* how many iterations in a row may read the pin asserted: with the button held,
\* every iteration down to the next count of TickStops; with the pin merely
\* bouncing after a release, up to the first ms, the last ms or the end of the
\* bounce window
TimingRuns(cd) ==
    IF held THEN {cd - NextTickStop(cd)}
    ELSE {n \in {1 - sinceEdge, BUTTON_DEBOUNCE_MS - 1 - sinceEdge,
                 BUTTON_DEBOUNCE_MS - sinceEdge} : n >= 1 /\ n <= cd}

\* n iterations in a row of the timing loop: the pin read asserted, 1 ms,
\* countdown--
TimingRun ==
    /\ pc = "h_timing"
    /\ TimingContinues(countdown, pin)
    /\ \E n \in TimingRuns(countdown) :
          /\ countdown' = countdown - n
          /\ Elapse(n)
    /\ UNCHANGED <<pc, eeprom, shadow, writes, resetHigh, pcie, currentLEDBrightness,
                   timerOn, blinkLeft, lastBlink, countdown_s, cycle, ret, chan,
                   currentChan>>
    /\ UNCHANGED histVars
    /\ UNCHANGED saveVars

\* faulty variant: classified by the pin level after the loop
Classify_ByPin(cd) == IF ~pin THEN "h_short" ELSE "h_long"

\* "if (countdown)": short press unless the countdown ran out
Classify(cd) == IF cd # 0 THEN "h_short" ELSE "h_long"

\* the loop ends: countdown ran out, or the pin read released
TimingExit ==
    /\ pc = "h_timing"
    /\ ~TimingContinues(countdown, pin)
    /\ sawUp' = (countdown # 0)
    /\ pc' = Classify(countdown)
    /\ NoTime
    /\ UNCHANGED <<eeprom, shadow, writes, resetHigh, pcie, currentLEDBrightness,
                   timerOn, blinkLeft, lastBlink, countdown_s, cycle, ret, chan,
                   currentChan, countdown>>
    /\ UNCHANGED <<bootCrc, shutDownCalls, trigPress, gestures, callActions>>
    /\ UNCHANGED saveVars

\* faulty variant: wraps one channel early
NextChannel_Early(c) ==
    LET c1 == (c + 1) % 65536
    IN IF c1 >= BAND_TOP THEN 0 ELSE c1

\* currentChan++ (uint16_t), wrapped to 0 above (1080-760)
NextChannel(c) ==
    LET c1 == (c + 1) % 65536
    IN IF c1 > BAND_TOP THEN 0 ELSE c1

\* the value tune_direct puts in register 0x03 for the tune command
TuneCommand(ch) == BitOr(TUNE_BIT, CHAN_MASK)

\* faulty variant: the tune bit is never cleared again
tune_direct_NoClear(sh, ch) ==
    LET sh1 == set_shadow_reg(sh, REGISTER_03, TuneCommand(ch))
    IN [shadow |-> sh1,
        writes |-> << si4702_write_registers(sh1, REGISTER_03),
                      si4702_write_registers(sh1, REGISTER_03) >>]

\* faulty variant: the tune writes go up to register 0x07
tune_direct_ThruSeven(sh, ch) ==
    LET sh1 == set_shadow_reg(sh, REGISTER_03, TuneCommand(ch))
        sh2 == set_shadow_reg(sh1, REGISTER_03, ch)
    IN [shadow |-> sh2,
        writes |-> << si4702_write_registers(sh1, REGISTER_07),
                      si4702_write_registers(sh2, REGISTER_07) >>]

\* tune_direct(ch): register 0x03 = tune command, written; 160 ms;
\* register 0x03 = ch, written.  The new shadow bank and the two transactions.
tune_direct(sh, ch) ==
    LET sh1 == set_shadow_reg(sh, REGISTER_03, TuneCommand(ch))
        sh2 == set_shadow_reg(sh1, REGISTER_03, ch)
    IN [shadow |-> sh2,
        writes |-> << si4702_write_registers(sh1, REGISTER_03),
                      si4702_write_registers(sh2, REGISTER_03) >>]

\* short press: next channel, tune_direct
ShortAction ==
    /\ pc = "h_short"
    /\ currentChan' = NextChannel(currentChan)
    /\ LET t == tune_direct(shadow, currentChan')
       IN /\ shadow' = t.shadow
          /\ writes' = writes \o t.writes
    /\ Elapse(160)
    /\ gestures' = Append(gestures, [press |-> trigPress, kind |-> "short",
                                     from |-> currentChan, to |-> currentChan',
                                     during |-> pressId])
    /\ callActions' = callActions + 1
    /\ pc' = "h_release"
    /\ UNCHANGED <<eeprom, resetHigh, pcie, currentLEDBrightness, timerOn, blinkLeft,
                   lastBlink, countdown_s, cycle, ret, chan, countdown>>
    /\ UNCHANGED <<bootCrc, shutDownCalls, trigPress, sawUp>>
    /\ UNCHANGED saveVars

\* long press: LED full on, update_channel(currentChan), 500 ms, LED off
LongAction ==
    /\ pc = "h_long"
    /\ eeprom' = update_channel(eeprom, currentChan)
    /\ saves' = Append(saves, currentChan)
    /\ UNCHANGED <<packets, restored, bankOps, torn>>
    /\ Elapse(500)
    /\ setLEDBrightness(0)
    /\ gestures' = Append(gestures, [press |-> trigPress, kind |-> "long",
                                     from |-> currentChan, to |-> currentChan,
                                     during |-> pressId])
    /\ callActions' = callActions + 1
    /\ pc' = "h_release"
    /\ UNCHANGED <<shadow, writes, resetHigh, pcie, blinkLeft, lastBlink,
                   countdown_s, cycle, ret, chan, currentChan, countdown>>
    /\ UNCHANGED <<bootCrc, shutDownCalls, trigPress, sawUp>>

\* faulty variant: the handler does not wait for the release
WaitRelease_NoWait ==
    /\ pc = "h_release"
    /\ pc' = "h_debounce_up"
    /\ NoTime
    /\ UNCHANGED <<eeprom, shadow, writes, resetHigh, pcie, currentLEDBrightness,
                   timerOn, blinkLeft, lastBlink, countdown_s, cycle, ret, chan,
                   currentChan, countdown>>
    /\ UNCHANGED histVars
    /\ UNCHANGED saveVars

\* "while (buttonDown());" ends on a released read
WaitRelease ==
    /\ pc = "h_release"
    /\ ~pin
    /\ pc' = "h_debounce_up"
    /\ NoTime
    /\ UNCHANGED <<eeprom, shadow, writes, resetHigh, pcie, currentLEDBrightness,
                   timerOn, blinkLeft, lastBlink, countdown_s, cycle, ret, chan,
                   currentChan, countdown>>
    /\ UNCHANGED histVars
    /\ UNCHANGED saveVars

\* debounce up, then return: to the breathing loop (cycle = 0, then the for
\* loop's cycle++ and test) or to the sleep loop.  The handler's locals end
\* with the call.
HandleDebounceUp ==
    /\ pc = "h_debounce_up"
    /\ Elapse(DebounceDelay)
    /\ IF ret = "breath"
       THEN LET nxt == AfterBody(0, countdown_s)
            IN pc' = nxt[1] /\ cycle' = nxt[2] /\ countdown_s' = nxt[3]
       ELSE pc' = "sleep_loop" /\ UNCHANGED <<cycle, countdown_s>>
    /\ ret' = "none"
    /\ currentChan' = 0
    /\ countdown' = 0
    /\ UNCHANGED <<eeprom, shadow, writes, resetHigh, pcie, currentLEDBrightness,
                   timerOn, blinkLeft, lastBlink, chan>>
    /\ UNCHANGED histVars
    /\ UNCHANGED saveVars

(***************************************************************************)
(* The firmware and its environment.                                       *)
(***************************************************************************)
Next ==
    \/ EnvPress
    \/ EnvRelease
    \/ EnvFlicker
    \/ EnvSettle
    \/ Boot
    \/ LowBattBlink
    \/ Wake
    \/ ProgCheck
    \/ ProgPacket
    \/ NormalStart
    \/ FactoryBlink
    \/ FactoryRestore
    \/ CrcCheck
    \/ InitReset
    \/ InitOscillator
    \/ InitPowerUp
    \/ InitParams
    \/ InitTune
    \/ InitUnmute
    \/ BreathStart
    \/ BreathRun
    \/ BreathButton
    \/ SleepOff
    \/ SleepEnter
    \/ Woke
    \/ HandleEntry
    \/ HandleDebounceDown
    \/ TimingRun
    \/ TimingExit
    \/ ShortAction
    \/ LongAction
    \/ WaitRelease
    \/ HandleDebounceUp

Spec == Init /\ [][Next]_vars

\* the steps of the CPU, as opposed to those of the user and the button contacts
Firmware ==
    \/ Boot \/ LowBattBlink \/ Wake \/ ProgCheck \/ ProgPacket
    \/ NormalStart \/ FactoryBlink \/ FactoryRestore \/ CrcCheck
    \/ InitReset \/ InitOscillator \/ InitPowerUp \/ InitParams \/ InitTune
    \/ InitUnmute
    \/ BreathStart \/ BreathRun \/ BreathButton
    \/ SleepOff \/ SleepEnter \/ Woke
    \/ HandleEntry \/ HandleDebounceDown \/ TimingRun \/ TimingExit
    \/ ShortAction \/ LongAction \/ WaitRelease \/ HandleDebounceUp

\* the CPU does not stop while it has an instruction to execute
LiveSpec == Spec /\ WF_vars(Firmware)

(***************************************************************************)
(* Loss of power inside update_channel, between its two EEPROM writes.     *)
(***************************************************************************)
\* the channels update_channel may be running with: in the long-press action,
\* or on a packet that readProgrammingPacket accepts
SavingChannels ==
    IF pc = "h_long" THEN {currentChan}
    ELSE IF pc = "prog_loop" /\ Len(packets) < MaxPackets
    THEN {readProgrammingPacket(d).save : d \in {e \in Packets : readProgrammingPacket(e).save >= 0}}
    ELSE {}

\* faulty variant: the CRC is rewritten before the supply fails
TornImage_Whole(ee, channel) == update_channel(ee, channel)

\* the EEPROM when the supply fails after eeprom_write_word(EEPROM_CHANNEL, ..)
\* and before eeprom_write_word(EEPROM_CRC16, ..)
TornImage(ee, channel) == update_channel_word(ee, channel)

\* the supply fails inside update_channel and comes back later: the EEPROM
\* keeps what was written, RAM and the I/O registers start over, main() runs
\* from the top with the button held or not
PowerLoss ==
    /\ torn.losses < MaxPowerLosses
    /\ \E channel \in SavingChannels :
          /\ eeprom' = TornImage(eeprom, channel)
          /\ torn' = [losses |-> torn.losses + 1,
                      moved  |-> channel # eeprom_read_word(eeprom, EEPROM_CHANNEL),
                      valid  |-> check_param_crc(eeprom, EEPROM_WORKING) = 0]
    /\ pc' = "boot"
    /\ shadow' = [a \in 0..31 |-> 0]
    /\ writes' = <<>>
    /\ resetHigh' = FALSE
    /\ pcie' = FALSE
    /\ currentLEDBrightness' = 0
    /\ timerOn' = FALSE
    /\ blinkLeft' = 0
    /\ lastBlink' = 0
    /\ countdown_s' = 0
    /\ cycle' = 0
    /\ ret' = "none"
    /\ chan' = 0
    /\ currentChan' = 0
    /\ countdown' = 0
    /\ held' \in BOOLEAN
    /\ pin' = held'
    /\ sinceEdge' = BUTTON_DEBOUNCE_MS
    /\ wake' = FALSE
    /\ bootCrc' = -1
    /\ shutDownCalls' = <<>>
    /\ trigPress' = 0
    /\ gestures' = <<>>
    /\ callActions' = 0
    /\ sawUp' = FALSE
    /\ packets' = <<>>
    /\ saves' = <<>>
    /\ restored' = FALSE
    /\ pressId' = 0
    /\ UNCHANGED bankOps

PowerNext == Next \/ PowerLoss

(***************************************************************************)
(* The shadow bank on its own: set_shadow_reg applied to any logical       *)
(* register of any bank.                                                   *)
(***************************************************************************)
\* 16-bit values written: the ends of the range, one-byte values, values with
\* different high and low bytes
RegValues == {0, 1, 255, 256, 4660, 33024, 65535}

\* banks the calls start from: as cleared at reset, all ones, all bytes different
BankImages ==
    { [a \in 0..31 |-> 0], [a \in 0..31 |-> 255], [a \in 0..31 |-> a + 1] }

BankInit ==
    /\ pc = "bank"
    /\ shadow \in BankImages
    /\ eeprom = EepromImage(BlockBytes(Params(0, 0, 0, 100, 5), TRUE))
    /\ writes = <<>>
    /\ resetHigh = FALSE
    /\ pcie = FALSE
    /\ currentLEDBrightness = 0
    /\ timerOn = FALSE
    /\ blinkLeft = 0
    /\ lastBlink = 0
    /\ countdown_s = 0
    /\ cycle = 0
    /\ ret = "none"
    /\ chan = 0
    /\ currentChan = 0
    /\ countdown = 0
    /\ held = FALSE
    /\ pin = FALSE
    /\ sinceEdge = BUTTON_DEBOUNCE_MS
    /\ pressId = 0
    /\ wake = FALSE
    /\ bootCrc = -1
    /\ shutDownCalls = <<>>
    /\ trigPress = 0
    /\ gestures = <<>>
    /\ callActions = 0
    /\ sawUp = FALSE
    /\ packets = <<>>
    /\ saves = <<>>
    /\ restored = FALSE
    /\ bankOps = <<>>
    /\ torn = NoTear

\* set_shadow_reg(reg, value) for the enum constant of logical register a
SetRegister ==
    /\ pc = "bank"
    /\ Len(bankOps) < MaxSets
    /\ \E a \in 0..15, value \in RegValues :
          /\ shadow' = set_shadow_reg(shadow, si4702_register[a + 1], value)
          /\ bankOps' = Append(bankOps, [reg |-> a, value |-> value])
    /\ UNCHANGED <<pc, eeprom, writes, resetHigh, pcie, currentLEDBrightness, timerOn,
                   blinkLeft, lastBlink, countdown_s, cycle, ret, chan, currentChan,
                   countdown>>
    /\ UNCHANGED <<envVars, histVars>>
    /\ UNCHANGED <<packets, saves, restored, torn>>

BankSpec == BankInit /\ [][SetRegister]_vars

PowerSpec == Init /\ [][PowerNext]_vars

(***************************************************************************)
(* Vocabulary of the properties.                                           *)
(***************************************************************************)
\* the 16-bit value transaction w carries for the register at offset reg
WrittenReg(w, reg) ==
    w.data[reg - REGISTER_02 + 1] * 256 + w.data[reg - REGISTER_02 + 2]

\* tune-enable bit and channel field of a register 0x03 value
TuneEnable(v) == Bit(v, 15) = 1
ChannelField(v) == BitAnd(v, CHAN_MASK)

\* positions of main() before si4702_init() is entered
PreInitPcs == {"boot", "lowbatt_blink", "lowbatt_sleep", "prog_check", "prog_loop",
               "normal_start", "factory_wait", "crc_check", "call_init"}

\* handleButtonDown() has taken its action and not yet returned
ActionTaken == pc \in {"h_release", "h_debounce_up"}

LastGesture == gestures[Len(gestures)]

AfterShort == ActionTaken /\ LastGesture.kind = "short"
AfterLong == ActionTaken /\ LastGesture.kind = "long"

(***************************************************************************)
(* Boot.                                                                   *)
(***************************************************************************)
\* C1: when the working block's CRC check fails at boot the device halts: the
\* radio chip stays in reset, si4702_init is never entered, no register-bus
\* write is issued and the breathing loop is never reached.
C1_BadCrcHalts ==
    bootCrc > 0 => (pc \in PreInitPcs /\ ~resetHigh /\ writes = <<>>)

\* C2: shutDown(DIAGNOSTIC_BLINK_BADEEPROM) is called only when check_param_crc
\* returned a mismatch (non-zero); with a valid working block it is never called.
C2_ShutDownOnlyOnMismatch ==
    shutDownCalls # <<>> => bootCrc > 0

\* the boot of a device with a valid working block reaches si4702_init
C2_ValidBootInit == bootCrc = 0 /\ pc = "init_osc" /\ resetHigh

\* C3: a boot with a valid working block issues exactly five write
\* transactions, with upper bounds 0x7, 0x2, 0x5, 0x3, 0x3 in this order (so the
\* 0x5 write precedes the tune write); the fourth carries register 0x03 with the
\* tune-enable bit set, the fifth with it clear, and both carry the persisted
\* channel in the channel field.
C3_InitWrites ==
    /\ pc = "call_init" => writes = <<>>
    /\ (pc = "init_done" /\ bootCrc = 0) =>
          /\ Len(writes) = 5
          /\ [i \in 1..5 |-> writes[i].upto] =
                <<REGISTER_07, REGISTER_02, REGISTER_05, REGISTER_03, REGISTER_03>>
          /\ TuneEnable(WrittenReg(writes[4], REGISTER_03))
          /\ ChannelField(WrittenReg(writes[4], REGISTER_03)) =
                eeprom_read_word(eeprom, EEPROM_CHANNEL)
          /\ ~TuneEnable(WrittenReg(writes[5], REGISTER_03))
          /\ WrittenReg(writes[5], REGISTER_03) =
                eeprom_read_word(eeprom, EEPROM_CHANNEL)

\* si4702_init has returned on a device whose valid working block holds channel 319
C3_InitDone ==
    /\ pc = "init_done"
    /\ bootCrc = 0
    /\ eeprom_read_word(eeprom, EEPROM_CHANNEL) = 319

\* C4: the value si4702_init leaves in register 0x02 to unmute has bit 14,
\* bit 13 and the enable bit set and no other bit.
C4_UnmuteBits ==
    pc = "init_done" =>
        /\ get_shadow_reg(shadow, REGISTER_02) =
              BV(REG_02_DMUTE_BIT) + BV(REG_02_MONO_BIT) + BV(REG_02_ENABLE_BIT)
        /\ WrittenReg(writes[Len(writes)], REGISTER_02) =
              BV(REG_02_DMUTE_BIT) + BV(REG_02_MONO_BIT) + BV(REG_02_ENABLE_BIT)

(***************************************************************************)
(* Button gestures.                                                        *)
(***************************************************************************)
\* C5: on a short press, the write that has the tune-enable bit set carries
\* the new channel in its channel field.
C5_TuneCarriesChannel ==
    AfterShort =>
        LET w == writes[Len(writes) - 1]
        IN /\ TuneEnable(WrittenReg(w, REGISTER_03))
           /\ ChannelField(WrittenReg(w, REGISTER_03)) = LastGesture.to

\* C6, state part: when a short press has acted, register 0x03 of the shadow
\* holds the new channel with the tune bit clear.
C6_ShadowAfterShort ==
    AfterShort =>
        /\ get_shadow_reg(shadow, REGISTER_03) = LastGesture.to
        /\ LastGesture.to = currentChan
        /\ ~TuneEnable(get_shadow_reg(shadow, REGISTER_03))

\* C6, step part: no step of handleButtonDown other than the long-press action
\* changes an EEPROM byte.
C6_EepromKept ==
    (pc \in HandlerPcs /\ pc # "h_long") => eeprom' = eeprom

\* C6: a short press leaves every EEPROM byte unchanged, and when it returns
\* register 0x03 of the shadow holds the new channel with the tune bit clear.
C6_ShortPress == []C6_ShadowAfterShort /\ [][C6_EepromKept]_vars

\* a short press is about to return
C6_ShortReturns == pc = "h_debounce_up" /\ LastGesture.kind = "short"

C8_SavedAfterLong ==
    AfterLong =>
        /\ eeprom_read_word(eeprom, EEPROM_CHANNEL) =
              ChannelField(get_shadow_reg(shadow, REGISTER_03))
        /\ eeprom_read_word(eeprom, EEPROM_CHANNEL) = LastGesture.from
        /\ check_param_crc(eeprom, EEPROM_WORKING) = 0

\* C8, step part: no step of handleButtonDown other than the short-press
\* action issues a register-bus write or changes the shadow.
C8_RadioKept ==
    (pc \in HandlerPcs /\ pc # "h_short") => (writes' = writes /\ shadow' = shadow)

\* C8: after short presses followed by a long press the working block's
\* channel field equals the shadow's register 0x03 channel and its CRC
\* validates; the long press issues no register-bus write and leaves the shadow
\* unchanged.
C8_LongPress == []C8_SavedAfterLong /\ [][C8_RadioKept]_vars

\* a long press has acted after a short press moved the channel
C8_ShortThenLong ==
    /\ AfterLong
    /\ Len(gestures) >= 2
    /\ \A i \in 1..(Len(gestures) - 1) : gestures[i].kind = "short"

\* C9: each invocation of handleButtonDown takes exactly one action; it is
\* the long-press action exactly when the pin read asserted at all LONG_PRESS_MS
\* samples so that the countdown reached zero, and the short-press action
\* otherwise; a release in the tick in which the countdown reaches zero is
\* still classified long.
C9_OneAction ==
    /\ pc \in {"h_entry", "h_debounce", "h_timing", "h_short", "h_long"}
          => (pc = "h_entry" \/ callActions = 0)
    /\ ActionTaken => callActions = 1
    /\ pc \in {"h_short", "h_long"} =>
          /\ (pc = "h_long") <=> (countdown = 0)
          /\ (pc = "h_long") <=> ~sawUp
    /\ ActionTaken =>
          ((LastGesture.kind = "long") <=> (countdown = 0 /\ ~sawUp))

\* the countdown reached zero, the button was released in that tick, and the
\* press is classified long
C9_TieIsLong == pc = "h_long" /\ countdown = 0 /\ ~held /\ ~pin

\* C10: however the pin flickers inside the debounce window after a press
\* edge or a release, no physical press is classified as more than one gesture,
\* whether the handler is called from the breathing loop or from the sleep loop.
C10_OneGesturePerPress ==
    \A i, j \in DOMAIN gestures :
        i # j => /\ gestures[i].press # gestures[j].press
                 /\ gestures[i].during # gestures[j].during

\* the handler, called from the sleep loop, has acted on a press and has read
\* the release, and the pin flickers back to asserted inside the debounce window
C10_FlickerAfterRelease ==
    /\ pc = "h_debounce_up"
    /\ ret = "sleep"
    /\ Len(gestures) >= 1
    /\ LastGesture.press = pressId
    /\ ~held /\ pin /\ sinceEdge < BUTTON_DEBOUNCE_MS

(***************************************************************************)
(* Parameter store.                                                        *)
(***************************************************************************)
\* the bytes of the working block outside the channel and crc fields
KeptOffsets ==
    (0..(2 * EEPROM_PARAM_BLOCK_SIZE - 1)) \
        {EEPROM_CHANNEL, EEPROM_CHANNEL + 1, EEPROM_CRC16, EEPROM_CRC16 + 1}

WorkingEqualsFactory(ee) ==
    \A a \in 0..(EEPROM_PARAM_BLOCK_SIZE - 1) :
        ee[EEPROM_WORKING + a] = ee[EEPROM_FACTORY + a]

\* update_channel has just completed: in the long-press action, or on the
\* packet received last
SaveDone ==
    \/ AfterLong
    \/ pc = "prog_loop" /\ packets # <<>> /\ packets[Len(packets)].rc = 0

\* C11: after update_channel(c), on a block whose CRC was valid or invalid
\* before, the stored CRC equals the CRC recomputed over bytes 0..13,
\* check_param_crc of the working block returns 0 and the channel field reads c.
C11_SaveValid ==
    SaveDone =>
        /\ eeprom_read_word(eeprom, EEPROM_CRC16) =
              Crc16Range(eeprom, EEPROM_WORKING, EEPROM_CRC16, 0)
        /\ check_param_crc(eeprom, EEPROM_WORKING) = 0
        /\ eeprom_read_word(eeprom, EEPROM_CHANNEL) = saves[Len(saves)]

\* update_channel has run on a working block that failed the CRC check at boot
C11_SavedOverBadCrc == AfterLong /\ bootCrc > 0

\* C12, step part: a step changes an EEPROM byte only as update_channel (in the
\* long-press action or on an accepted packet) or as the boot-time factory
\* restore, and update_channel changes no byte outside the channel and CRC
\* fields of the working block.
C12_OnlyChannelAndCrc ==
    /\ eeprom' # eeprom => pc \in {"h_long", "prog_loop", "factory_wait"}
    /\ pc \in {"h_long", "prog_loop"} =>
          /\ \A a \in KeptOffsets : eeprom'[a] = eeprom[a]
          /\ eeprom' # eeprom => Len(saves') = Len(saves) + 1

\* C12: update_channel changes only offsets 3-4 and 14-15 of the working
\* block, all other working bytes and the factory block stay as they were, and
\* nothing but update_channel and the boot-time factory restore writes the
\* working block.
C12_SaveFrame == [][C12_OnlyChannelAndCrc]_vars

\* a programming packet has changed the channel of a device that held channel 319
C12_ChannelChanged ==
    /\ pc = "prog_loop"
    /\ Len(saves) = 1
    /\ eeprom_read_word(eeprom, EEPROM_CHANNEL) = 300
    /\ eeprom[EEPROM_VOLUME] = 15

\* C13, step part: the factory restore leaves the 16 working bytes equal to the
\* 16 factory bytes and the working block's CRC valid.
C13_RestoreCopies ==
    (pc = "factory_wait" /\ pc' = "crc_check") =>
        /\ WorkingEqualsFactory(eeprom')
        /\ check_param_crc(eeprom', EEPROM_WORKING) = 0

\* C13: after copy_factory_param all 16 bytes of the working block equal the
\* factory block's and the working block's CRC validates.
C13_FactoryRestore == [][C13_RestoreCopies]_vars

\* copy_factory_param has just run over a working block that was different
C13_Restored == pc = "crc_check" /\ WorkingEqualsFactory(eeprom)

\* C14: no byte of the factory block (offsets 16..31) ever changes: not on any
\* boot path, gesture, factory restore or programming packet.
C14_FactoryBlockKept ==
    [][\A a \in 0..(EEPROM_PARAM_BLOCK_SIZE - 1) :
          eeprom'[EEPROM_FACTORY + a] = eeprom[EEPROM_FACTORY + a]]_vars

\* the working block was restored from the factory block at boot and a long
\* press has then saved another channel
C14_RestoredThenSaved ==
    /\ AfterLong
    /\ eeprom[EEPROM_WORKING + EEPROM_BAND] = eeprom[EEPROM_FACTORY + EEPROM_BAND]
    /\ eeprom[EEPROM_WORKING + EEPROM_DEEMPHASIS] = eeprom[EEPROM_FACTORY + EEPROM_DEEMPHASIS]
    /\ eeprom[EEPROM_WORKING + EEPROM_SPACING] = eeprom[EEPROM_FACTORY + EEPROM_SPACING]
    /\ eeprom[EEPROM_WORKING + EEPROM_VOLUME] = eeprom[EEPROM_FACTORY + EEPROM_VOLUME]
    /\ eeprom_read_word(eeprom, EEPROM_CHANNEL) #
          eeprom_read_word(eeprom, EEPROM_FACTORY + EEPROM_CHANNEL)

(***************************************************************************)
(* Programming mode.                                                       *)
(***************************************************************************)
\* the packet was received whole
Received(d) == \A i \in 1..4 : d[i] >= 0

\* the channel a packet carries: (byte 1 << 8) | byte 2
PacketChannel(d) == d[1] * 256 + d[2]

\* the packet was received whole and its crc is the crc of its channel bytes
GoodPacket(d) ==
    /\ Received(d)
    /\ d[3] * 256 + d[4] = Crc16Range(<<d[1], d[2]>>, 1, 3, 0)

LastPacket == packets[Len(packets)]

\* C15, step part: receiving a packet that is not good changes no EEPROM byte,
\* calls update_channel not at all, and leaves the device in the loop.
C15_BadPacketStep ==
    (Len(packets') > Len(packets) /\ ~GoodPacket(packets'[Len(packets')].bytes)) =>
        /\ eeprom' = eeprom
        /\ saves' = saves
        /\ pc' = "prog_loop"

\* C15: in Programming mode a packet whose CRC16 does not match its channel
\* bytes, or whose reception fails part-way, is discarded: no byte of the
\* working block changes and the loop goes on to the next packet.
C15_BadPacketDiscarded == [][C15_BadPacketStep]_vars

\* a packet with a wrong crc and then a packet cut short have been received
C15_TwoRejected ==
    /\ pc = "prog_loop"
    /\ Len(packets) = 2
    /\ Received(packets[1].bytes) /\ ~GoodPacket(packets[1].bytes)
    /\ ~Received(packets[2].bytes)

\* C16: in Programming mode every packet whose CRC16 matches causes exactly
\* one update_channel call, with channel (byte1 << 8) | byte2; after it the
\* working block's channel field is that value and its CRC validates; the blink
\* count of an accepted packet differs from that of a packet with a wrong CRC.
C16_GoodPacketSaved ==
    packets # <<>> =>
        /\ Len(saves) = Len(SelectSeq(packets, LAMBDA p : GoodPacket(p.bytes)))
        /\ \A i \in DOMAIN saves :
              saves[i] = PacketChannel(
                  SelectSeq(packets, LAMBDA p : GoodPacket(p.bytes))[i].bytes)
        /\ GoodPacket(LastPacket.bytes) =>
              /\ eeprom_read_word(eeprom, EEPROM_CHANNEL) = PacketChannel(LastPacket.bytes)
              /\ check_param_crc(eeprom, EEPROM_WORKING) = 0
        /\ \A i, j \in DOMAIN packets :
              (GoodPacket(packets[i].bytes)
                 /\ Received(packets[j].bytes) /\ ~GoodPacket(packets[j].bytes))
              => /\ packets[i].blink # packets[j].blink
                 /\ packets[i].blink # 0
                 /\ packets[j].blink # 0

\* a packet with a wrong crc was rejected and the next packet was accepted
C16_RejectedThenAccepted ==
    /\ Len(packets) = 2
    /\ Received(packets[1].bytes) /\ ~GoodPacket(packets[1].bytes)
    /\ GoodPacket(packets[2].bytes)
    /\ PacketChannel(packets[2].bytes) = 300

(***************************************************************************)
(* Power modes.                                                            *)
(***************************************************************************)
\* C17, state part: in the packet loop the chip reset is asserted, no
\* register-bus write has been issued and the button interrupt is not armed.
C17_ProgQuiet ==
    pc = "prog_loop" => (~resetHigh /\ writes = <<>> /\ ~pcie /\ bootCrc = -1)

\* C17, step part: no step leaves the packet loop.
C17_ProgStays == pc = "prog_loop" => pc' = "prog_loop"

\* C17: with the programming voltage present at boot the device stays in the
\* packet loop forever: it never reaches Normal-Init, never de-asserts the
\* chip reset, never writes to the register bus and never arms the button
\* interrupt, whatever packets arrive.
C17_ProgrammingForever == []C17_ProgQuiet /\ [][C17_ProgStays]_vars

\* the loop is still running after a packet was accepted
C17_AcceptedAndLooping ==
    /\ pc = "prog_loop"
    /\ Len(packets) = MaxPackets
    /\ \E i \in DOMAIN packets : packets[i].rc = 0

LowBattPcs == {"lowbatt_blink", "lowbatt_sleep"}

\* C18, state part: in LowBattery mode the chip reset is asserted, no
\* register-bus write has been issued, no wake source is armed and the LED timer
\* is not used; the blink loop has between 1 and 120 cycles to go, and the
\* device sleeps only when none is left.
C18_LowBattQuiet ==
    pc \in LowBattPcs =>
        /\ ~resetHigh /\ writes = <<>> /\ ~pcie /\ ~wake /\ ~timerOn
        /\ pc = "lowbatt_blink" => blinkLeft \in 1..LOWBATT_BLINK_CYCLES
        /\ pc = "lowbatt_sleep" => blinkLeft = 0

\* C18, step part: the blink loop starts with 120 cycles to go and every
\* cycle takes one off; no step of LowBattery mode writes the EEPROM or leaves
\* the mode.
C18_LowBattStep ==
    /\ (pc = "boot" /\ pc' = "lowbatt_blink") => blinkLeft' = LOWBATT_BLINK_CYCLES
    /\ pc \in LowBattPcs =>
          /\ pc' \in LowBattPcs
          /\ eeprom' = eeprom
          /\ blinkLeft' # blinkLeft => blinkLeft' = blinkLeft - 1
          /\ pc' # pc => (pc = "lowbatt_blink" /\ pc' = "lowbatt_sleep")

\* C18: with the supply below the threshold at boot the receiver is never
\* powered: reset is never de-asserted, no register-bus or EEPROM write
\* occurs, the LED is blinked directly for 120 cycles, and the device then
\* sleeps with no wake source armed and never leaves LowBattery mode.
C18_LowBattery == []C18_LowBattQuiet /\ [][C18_LowBattStep]_vars

\* the button changes while the device sleeps in LowBattery mode, and the
\* device sleeps on
C18_EdgeWhileAsleep ==
    pc = "lowbatt_sleep" /\ ~held /\ sinceEdge < BUTTON_DEBOUNCE_MS

\* C19, step part: after a wake the handler is called exactly when the pin
\* reads asserted; otherwise the device goes back to sleep with no gesture
\* action, register-bus write or EEPROM write; the handler is entered from the
\* sleep loop in no other way, and when it returns the device goes back to sleep.
C19_WakeStep ==
    /\ (pc = "woke" /\ pc' # pc) =>
          /\ (pc' = "h_entry") <=> pin
          /\ ~pin => pc' = "sleep_loop"
    /\ pc \in {"woke", "sleep_loop", "sleeping"} =>
          (gestures' = gestures /\ writes' = writes /\ eeprom' = eeprom)
    /\ (pc = "sleep_loop" /\ pc' # pc) => pc' = "sleeping"
    /\ (pc # "h_entry" /\ pc' = "h_entry" /\ ret' = "sleep") => (pc = "woke" /\ pin)
    /\ (pc = "h_debounce_up" /\ ret = "sleep" /\ pc' # pc) => pc' = "sleep_loop"

\* C19: in Normal-Sleeping the gesture handler is invoked after a wake if and
\* only if the pin reads asserted; a spurious wake returns to sleep without
\* gesture action, bus write or EEPROM write; after a handled gesture the
\* device returns to sleep; the LED PWM timer is off whenever the device sleeps.
C19_Sleeping == [](pc = "sleeping" => ~timerOn) /\ [][C19_WakeStep]_vars

\* a wake with the pin not asserted, on a device that handled a gesture before
C19_SpuriousWake == pc = "woke" /\ ~pin /\ gestures # <<>>

\* the breathing loop, the handler called from it included
Breathing == pc = "breath" \/ (pc \in HandlerPcs /\ ret = "breath")

\* C20, state part: while breathing between 1 and 60 traversals are to go.
C20_BreathsLeft ==
    pc = "breath" =>
        /\ countdown_s \in 1..BREATH_COUNT_TIMEOUT_S
        /\ cycle \in 0..(BREATH_LEN - 1)

\* C20, step part: breathing starts with 60 traversals to go; one is taken off
\* only by a step that completes the ramp (its last entry is shown); breathing
\* is left for sleep only when the last of them is taken off.
C20_BreathStep ==
    /\ (pc = "init_done" /\ pc' = "breath") => countdown_s' = BREATH_COUNT_TIMEOUT_S
    /\ (pc # "init_done" /\ countdown_s' # countdown_s) =>
          /\ pc = "breath"
          /\ countdown_s' = countdown_s - 1
          /\ currentLEDBrightness' = breath(BREATH_LEN - 1)
    /\ (pc # "sleep_off" /\ pc' = "sleep_off") =>
          (pc = "breath" /\ countdown_s = 1 /\ countdown_s' = 0)

\* C20, progress part: if from some time on the button is neither held nor
\* reads asserted, a breathing device eventually sleeps.
C20_BreathingEnds ==
    <>[](~held /\ ~pin) => [](Breathing => <>(pc = "sleeping"))

\* C20: Normal-Breathing lasts exactly BREATH_COUNT_TIMEOUT_S completed ramp
\* traversals; provided the button is eventually never asserted again and every
\* press is eventually released, the device eventually leaves Normal-Breathing
\* and enters Normal-Sleeping.
C20_SixtyBreaths == []C20_BreathsLeft /\ [][C20_BreathStep]_vars /\ C20_BreathingEnds

\* the device leaves for sleep after a breathing phase in which the button
\* was used
C20_AsleepAfterGesture ==
    pc = "sleep_off" /\ countdown_s = 0 /\ gestures # <<>> /\ ~held /\ ~pin

(***************************************************************************)
(* Interrupted save.                                                       *)
(***************************************************************************)
\* the boot after the last loss of power has run its CRC check on the working
\* block as the interrupted update_channel left it, with the channel field
\* written to a different value (the button was not held at that boot)
TornBlockChecked ==
    /\ torn.losses > 0
    /\ bootCrc # -1
    /\ ~restored
    /\ torn.moved

\* C21, step part: after a loss of power inside update_channel no step of the
\* boot changes an EEPROM byte, the button-held factory restore apart; the block
\* is next written by a long-press save or an accepted packet.
C21_TornKept ==
    (torn.losses > 0 /\ eeprom' # eeprom) => pc \in {"h_long", "prog_loop", "factory_wait"}

\* C21 as stated: whenever power is lost inside update_channel after the
\* channel field was written with a different value and before the CRC field is
\* rewritten, the CRC check of the next boot reports the working block invalid.
C21_TornInvalid == TornBlockChecked => bootCrc > 0

\* C21, amended, state part: the same for an update_channel that was called on
\* a working block whose CRC was valid.
C21_TornFromValid ==
    (TornBlockChecked /\ torn.valid) => bootCrc > 0

\* C21, amended: if power is lost inside update_channel, called on a working
\* block with a valid CRC, after the channel field was written with a different
\* value and before the CRC field is rewritten, the CRC check of the next boot
\* reports the working block invalid, and no step of that boot other than the
\* button-held factory restore changes a byte of it.
C21_TornDetected == []C21_TornFromValid /\ [][C21_TornKept]_vars

\* the long-press save of channel 101 was cut short on a valid block, and the
\* next boot has checked the block and gone on to si4702_init
C21_TornBooted ==
    /\ TornBlockChecked
    /\ torn.valid
    /\ pc = "init_osc"
    /\ eeprom_read_word(eeprom, EEPROM_CHANNEL) = 101

(***************************************************************************)
(* Channel range.                                                          *)
(***************************************************************************)
\* C22: the working block's channel field, within 0..319 at boot, is within
\* 0..319 in every reachable state: after short presses, long-press saves, the
\* boot-time factory restore and accepted programming packets.
C22_ChannelInBand ==
    eeprom_read_word(eeprom, EEPROM_FACTORY + EEPROM_CHANNEL) \in 0..319
        => eeprom_read_word(eeprom, EEPROM_WORKING + EEPROM_CHANNEL) \in 0..319

\* a long press has saved the channel that a short press reached from 319
C22_SavedAboveBand ==
    /\ AfterLong
    /\ eeprom_read_word(eeprom, EEPROM_WORKING + EEPROM_CHANNEL) = BAND_TOP
    /\ check_param_crc(eeprom, EEPROM_WORKING) = 0

(***************************************************************************)
(* Register-bus transactions.                                              *)
(***************************************************************************)
\* transaction w carries the registers 0x2..upper of the bank sh and nothing
\* else: 2 * (upper - 0x2 + 1) bytes, from shadow[REGISTER_02] on, each register
\* high byte first
Carries(w, upper, sh) ==
    /\ w.upto = si4702_register[upper + 1]
    /\ Len(w.data) = 2 * (upper - 2 + 1)
    /\ \A r \in 2..upper :
          /\ w.data[2 * (r - 2) + 1] = sh[si4702_register[r + 1]]
          /\ w.data[2 * (r - 2) + 2] = sh[si4702_register[r + 1] + 1]
          /\ w.data[2 * (r - 2) + 1] * 256 + w.data[2 * (r - 2) + 2] =
                get_shadow_reg(sh, si4702_register[r + 1])

\* C23, state part: every transaction issued so far has an upper bound in
\* 0x2..0x7 and carries two bytes for each register from 0x2 to its upper bound.
C23_WriteRanges ==
    \A i \in DOMAIN writes :
        \E upper \in 2..7 :
            /\ writes[i].upto = si4702_register[upper + 1]
            /\ Len(writes[i].data) = 2 * (upper - 2 + 1)

\* C23, step part: the transaction a step issues last carries the shadow bank
\* as the step leaves it; when a step issues two (tune_direct), the first
\* carries the bank as it was in between, with the tune command in register 0x3.
C23_WriteData ==
    writes' # writes =>
        /\ Len(writes') \in {Len(writes) + 1, Len(writes) + 2}
        /\ \E upper \in 2..7 : Carries(writes'[Len(writes')], upper, shadow')
        /\ Len(writes') = Len(writes) + 2 =>
              \E upper \in 3..7 :
                  Carries(writes'[Len(writes') - 1], upper,
                          set_shadow_reg(shadow', REGISTER_03, TuneCommand(currentChan')))

\* C23: every register-bus write transaction, of the init sequence and of
\* every later tune, starts at register 0x2 and transmits exactly the shadow
\* values of the registers 0x2..upper bound, 2 bytes each, high byte first; the
\* upper bound never exceeds 0x7, so registers 0x8 and 0x9 are never written.
C23_WriteTransactions == []C23_WriteRanges /\ [][C23_WriteData]_vars

\* the five writes of the init sequence and the four of two short presses
C23_TunedTwice ==
    /\ AfterShort
    /\ Len(writes) = 9
    /\ writes[1].upto = REGISTER_07
    /\ Len(writes[1].data) = 12

\* the logical registers transaction w transmits
Transmitted(w) == {r \in 2..9 : si4702_register[r + 1] + 2 <= REGISTER_02 + Len(w.data)}

\* C24: register 0x7 is transmitted only in the first write transaction of
\* the init sequence (the crystal-oscillator-enable write); every later write
\* transaction of that boot, the tune writes of the gestures included, has an
\* upper bound of at most 0x5 and so does not transmit register 0x7.
C24_SevenOnlyFirst ==
    \A i \in DOMAIN writes :
        /\ i = 1 => (writes[i].upto = REGISTER_07 /\ 7 \in Transmitted(writes[i]))
        /\ i > 1 =>
              /\ writes[i].upto \in {si4702_register[r + 1] : r \in 2..5}
              /\ Transmitted(writes[i]) \subseteq 2..5

\* a short press has issued its two tune writes after the five of the init
\* sequence, on a device that booted with channel 319
C24_TuneAfterInit ==
    /\ AfterShort
    /\ Len(writes) = 7
    /\ writes[7].upto = REGISTER_03
    /\ Transmitted(writes[7]) = {2, 3}
    /\ LastGesture.from = 319

(***************************************************************************)
(* Tune protocol.                                                          *)
(***************************************************************************)
\* the transactions that transmit register 0x3, in order
Reg3Writes == SelectSeq(writes, LAMBDA w : 3 \in Transmitted(w))

\* the transactions that transmit register 0x3 with the tune-enable bit set
TuneWrites ==
    SelectSeq(writes, LAMBDA w : /\ 3 \in Transmitted(w)
                                 /\ TuneEnable(WrittenReg(w, REGISTER_03)))

\* the channel the chip was last told to tune to: the channel field of the last
\* register 0x3 value transmitted with the tune-enable bit set
TunedChannel == ChannelField(WrittenReg(TuneWrites[Len(TuneWrites)], REGISTER_03))

\* si4702_init has returned and handleButtonDown is not running
IdleAfterInit ==
    pc \in {"init_done", "breath", "sleep_off", "sleep_loop", "sleeping", "woke"}

\* C25, first part: register 0x3 is never transmitted with the tune-enable bit
\* set twice without a transmission with the bit clear in between.
C25_TuneBitAlternates ==
    \A i \in 1..(Len(Reg3Writes) - 1) :
        ~(/\ TuneEnable(WrittenReg(Reg3Writes[i], REGISTER_03))
          /\ TuneEnable(WrittenReg(Reg3Writes[i + 1], REGISTER_03)))

\* C25, second part: whenever the handler is idle after init, register 0x3 of
\* the shadow has the tune-enable bit clear and holds the currently tuned channel.
C25_IdleShadow ==
    IdleAfterInit =>
        /\ ~TuneEnable(get_shadow_reg(shadow, REGISTER_03))
        /\ get_shadow_reg(shadow, REGISTER_03) = TunedChannel

\* C25: register 0x3 is never written with the tune-enable bit set twice
\* without an intervening write with the bit clear, and whenever the gesture
\* machine is idle after init the shadow's register 0x3 has the tune-enable bit
\* clear and its value equals the currently tuned channel.
C25_TuneProtocol == C25_TuneBitAlternates /\ C25_IdleShadow

\* the handler has returned to the breathing loop after a short press
C25_IdleAfterShort ==
    /\ pc = "breath"
    /\ gestures # <<>>
    /\ LastGesture.kind = "short"
    /\ ~TuneEnable(get_shadow_reg(shadow, REGISTER_03))

(***************************************************************************)
(* Factory restore at boot.                                                *)
(***************************************************************************)
\* the channel field of the factory block
FactoryChannel == eeprom_read_word(eeprom, EEPROM_FACTORY + EEPROM_CHANNEL)

\* C26, step part: with the button read asserted at boot the device waits, and
\* writes no EEPROM byte while the pin reads asserted; the restore is made by a
\* step that reads the pin released, before the CRC check and before any
\* register-bus write, and leaves the working block equal to the factory block.
C26_RestoreStep ==
    /\ (pc = "normal_start" /\ pin /\ pc' # pc) =>
          (pc' = "factory_wait" /\ eeprom' = eeprom)
    /\ (pc = "factory_wait" /\ pin) => (pc' = "factory_wait" /\ eeprom' = eeprom)
    /\ (pc = "factory_wait" /\ pc' # pc) => (restored' /\ pc' = "crc_check")
    /\ (restored' /\ ~restored) =>
          /\ pc = "factory_wait" /\ ~pin
          /\ bootCrc = -1 /\ bootCrc' = -1
          /\ writes = <<>> /\ writes' = <<>>
          /\ WorkingEqualsFactory(eeprom')

\* C26, state part: after a restore the CRC check is made on the restored
\* block, and the tune write of the init sequence carries the factory block's
\* channel with the tune-enable bit set.
C26_RestoredTuned ==
    restored =>
        /\ pc \in {"crc_check"} => (bootCrc = -1 /\ writes = <<>>)
        /\ pc \in {"call_init", "init_osc", "init_powerup", "init_params", "init_tune"}
              => (bootCrc = 0 /\ WorkingEqualsFactory(eeprom))
        /\ pc \in {"init_unmute", "init_done"} =>
              /\ chan = FactoryChannel
              /\ TuneEnable(WrittenReg(writes[4], REGISTER_03))
              /\ ChannelField(WrittenReg(writes[4], REGISTER_03)) = FactoryChannel
        /\ pc = "init_done" => WrittenReg(writes[5], REGISTER_03) = FactoryChannel

\* C26: if the button is held at boot in Normal-Init, the factory restore is
\* performed only after the button is observed released, it completes before
\* the working-block CRC check and before any register-bus write, and the
\* channel tuned by the init sequence is then the factory block's channel.
C26_BootRestore == []C26_RestoredTuned /\ [][C26_RestoreStep]_vars

\* the init sequence has run after a restore and has tuned the factory
\* block's channel (no working block of the inputs holds it)
C26_RestoredAndTuned ==
    /\ restored
    /\ pc = "init_done"
    /\ chan = 50
    /\ Len(writes) = 5

(***************************************************************************)
(* handleButtonDown, entry to return.                                      *)
(***************************************************************************)
\* C27, step part: the first step of the handler turns the LED off and takes
\* no time; the wait for the release is left only on a released read; the
\* handler is left only from the second debounce delay, with that delay
\* elapsed, one action taken and the LED off; once the action is taken no step
\* of the handler takes another, writes the EEPROM or the register bus; and no
\* step of the handler moves the breathing loop or receives a packet.
C27_HandlerStep ==
    /\ (pc = "h_entry" /\ pc' # pc) =>
          /\ pc' = "h_debounce"
          /\ currentLEDBrightness' = 0 /\ ~timerOn'
          /\ sinceEdge' = sinceEdge
    /\ (pc = "h_debounce" /\ pc' # pc) => sinceEdge' = BUTTON_DEBOUNCE_MS
    /\ (pc = "h_release" /\ pc' # pc) => (~pin /\ pc' = "h_debounce_up")
    /\ (pc \in HandlerPcs /\ pc' \notin HandlerPcs) =>
          /\ pc = "h_debounce_up"
          /\ sinceEdge' = BUTTON_DEBOUNCE_MS
          /\ callActions = 1
          /\ currentLEDBrightness' = 0
    /\ (pc \in {"h_release", "h_debounce_up"}) =>
          (gestures' = gestures /\ eeprom' = eeprom /\ writes' = writes)
    /\ (pc \in HandlerPcs /\ pc' \in HandlerPcs) =>
          (countdown_s' = countdown_s /\ cycle' = cycle /\ packets' = packets)

\* C27, state part: after the entry step the LED is off at every step boundary
\* of the handler (the long-press flash is lit and put out inside the action),
\* and at most one action is taken by an invocation.
C27_HandlerState ==
    (pc \in HandlerPcs /\ pc # "h_entry") =>
        (currentLEDBrightness = 0 /\ callActions <= 1)

\* C27: handleButtonDown turns the LED off on entry before the first debounce
\* delay and returns only after the pin was read released following the action
\* and a second debounce delay has elapsed; while the button stays held no
\* second action is taken and nothing else is processed, and the LED brightness
\* is 0 when it returns.
C27_HandlerBrackets == []C27_HandlerState /\ [][C27_HandlerStep]_vars

\* the handler waits for the release of a button still held after a long
\* press that was made during breathing with the LED lit
C27_HeldAfterLong ==
    /\ pc = "h_release"
    /\ AfterLong
    /\ held /\ pin
    /\ ret = "breath"
    /\ cycle = 45

(***************************************************************************)
(* Button during breathing.                                                *)
(***************************************************************************)
\* a step of the breathing loop itself (a loop body has run)
BreathBody == pc = "breath" /\ (pc' # pc \/ cycle' # cycle)

\* C28, step part: a loop body that reads the pin asserted calls the handler;
\* when the handler returns the loop goes on with ramp step 0, so that the next
\* brightness driven is breath_data[0], and with as many traversals to go as
\* before.
C28_RestartStep ==
    /\ BreathBody => ((pc' = "h_entry") <=> pin')
    /\ (pc = "breath" /\ pc' = "h_entry") => (cycle' = cycle /\ countdown_s' = countdown_s)
    /\ (pc = "h_debounce_up" /\ ret = "breath" /\ pc' # pc) =>
          /\ pc' = "breath"
          /\ cycle' = 0
          /\ countdown_s' = countdown_s

\* C28: in Normal-Breathing a button assertion observed mid-ramp invokes the
\* gesture handler, the next brightness driven afterwards is the first step of
\* the ramp table (index 0 of breath_data), and the interrupted traversal is not
\* counted towards the 60.
C28_RampRestarts == [][C28_RestartStep]_vars

\* the handler, called at ramp step 45 of the first traversal, is about to
\* return to the breathing loop
C28_ReturnsMidRamp ==
    /\ pc = "h_debounce_up"
    /\ ret = "breath"
    /\ cycle = 45
    /\ countdown_s = BREATH_COUNT_TIMEOUT_S

(***************************************************************************)
(* Shadow bank layout.                                                     *)
(***************************************************************************)
\* the two bytes of shadow[] that hold logical register a
RegBytes(a) == {si4702_register[a + 1], si4702_register[a + 1] + 1}

\* C29, layout part: register a is stored at offset 2 * ((a + 6) mod 16); the
\* 16 registers occupy disjoint byte pairs that fill shadow[], in the order
\* 0xA..0xF, 0x0..0x9, and registers 0x2..0x9 are contiguous.
C29_Layout ==
    /\ \A a \in 0..15 : si4702_register[a + 1] = 2 * ((a + 6) % 16)
    /\ \A a, b \in 0..15 : a # b => RegBytes(a) \cap RegBytes(b) = {}
    /\ UNION {RegBytes(a) : a \in 0..15} = 0..31
    /\ [i \in 1..16 |-> si4702_register[((i + 9) % 16) + 1]] =
          [i \in 1..16 |-> 2 * (i - 1)]
    /\ \A a \in 2..8 : si4702_register[a + 2] = si4702_register[a + 1] + 2

\* C29, step part: after set_shadow_reg(a, v) get_shadow_reg(a) returns v,
\* get_shadow_reg(b) returns what it returned before for every other register
\* b, and no bus transaction has been issued.
C29_SetStep ==
    bankOps' # bankOps =>
        LET op == bankOps'[Len(bankOps')]
        IN /\ get_shadow_reg(shadow', si4702_register[op.reg + 1]) = op.value
           /\ \A b \in 0..15 :
                 b # op.reg => get_shadow_reg(shadow', si4702_register[b + 1]) =
                               get_shadow_reg(shadow, si4702_register[b + 1])
           /\ writes' = writes

\* C29: for all logical registers a, b and all 16-bit values v,
\* set_shadow_reg(a, v) followed by get_shadow_reg(a) returns v,
\* get_shadow_reg(b) is unchanged for b # a and no bus transaction is issued;
\* the storage offset of register a is 2 * ((a + 6) mod 16), so the registers
\* occupy disjoint byte pairs in read order 0xA..0xF, 0x0..0x9 and registers
\* 0x2..0x9 are contiguous.
C29_BankRoundTrip == []C29_Layout /\ [][C29_SetStep]_vars

\* registers 0x9 and 0xA, stored at the two ends of shadow[], have been set
\* on a bank whose bytes were all different
C29_BothEndsSet ==
    /\ Len(bankOps) = 2
    /\ bankOps[1] = [reg |-> 9, value |-> 65535]
    /\ bankOps[2] = [reg |-> 10, value |-> 33024]
    /\ get_shadow_reg(shadow, si4702_register[10]) = 65535
    /\ get_shadow_reg(shadow, si4702_register[11]) = 33024
    /\ shadow[2] = 3

====
